---- MODULE Spec2Model ----
(***************************************************************************)
(* Model of the chat-session backend in src/backend/main.py: the users and *)
(* chats tables, the /chat, /chat/{chat_id} (DELETE), /chats (DELETE) and  *)
(* /speech_to_text handlers, and the pure helper create_chat_title.        *)
(*                                                                         *)
(* Text is a sequence of one-character strings, so that str.split(' '),    *)
(* ' '.join, str.capitalize and the prompt/JSON formatting are computed    *)
(* as the code computes them.  An Optional value is a sequence of length   *)
(* 0 (None / NULL) or 1 (the value).                                       *)
(*                                                                         *)
(* Requests run in worker threads.  A /chat request is three steps: the    *)
(* lookups and the load (ChatBegin), the blocking llm.invoke call          *)
(* (LlmInvokeOk / LlmInvokeFail) and the write (ChatPersist); a /chat      *)
(* request that fails before the model call (ChatRejected) and the other   *)
(* handlers make no blocking external call and are one step each.  The     *)
(* /chat handlers that are running are a bag of handler frames (the        *)
(* threads are interchangeable).  The most recent response is kept, so     *)
(* that outcomes can be observed.                                          *)
(*                                                                         *)
(* The database file outlives the process: the behaviours start with two   *)
(* registered accounts and with no chat or one chat stored earlier.        *)
(***************************************************************************)
EXTENDS Integers, Sequences, FiniteSets, Bags, TLC

(* ------------------------------ bounds --------------------------------- *)
\* number of /chat requests the server handles at the same time
NumWorkers == 2
\* number of HTTP requests in a behaviour
MaxRequests == 3
\* longest input text of the create_chat_title harness
MaxLen == 5

\* registered accounts (rows of the users table) and the usernames a caller
\* can send; "carol" is not registered
Registered == ("alice" :> 1) @@ ("bob" :> 2)
Usernames == {"alice", "bob", "carol"}
\* request bodies ("question") and model replies used by the requests
Questions == { <<>>, <<"H", "i">> }
Replies == { <<"o", "k">> }
\* chat_id values a caller puts in the query string or the path: 0 and the
\* first two ids the store assigns
SuppliedIds == {0, 1, 2}
\* characters of the create_chat_title harness: a letter, a space, a tab
TitleChars == {"a", " ", "\t"}

VARIABLES
    users,          \* users table: username -> id
    chats,          \* chats table: id -> [user_id, first_question, conversation_history]
    handlers,       \* bag of the running chat() frames, each a record of
                    \*   pc: "invoke" (llm.invoke pending) or "persist" (reply received)
                    \*   req: the request's parameters
                    \*   db_chat: the row loaded at line 232 (Optional)
                    \*   conversation: the local list `conversation`
                    \*   chat_history_text: the context text built at line 249
                    \*   llm_prompt: the prompt handed to llm.invoke at line 251
                    \*   llm_response: the model's reply (Optional)
    last_response,  \* the most recent response: request and outcome
    prev_response,  \* the response before that, kept while both answer
                    \* delete_chat requests
    started,        \* number of requests received so far
    titleIn, titleOut, titleDone,  \* create_chat_title harness
    sttBody,        \* speech_to_text: what `await request.body()` does
    sttWav,         \* speech_to_text: what the WAV attempt does
    sttRaw,         \* speech_to_text: what the raw-PCM attempt does
    sttPc,          \* speech_to_text: position of the handler
    sttTried,       \* speech_to_text: the attempts made so far, in order
    sttResult       \* speech_to_text: the response (Optional)

vars == << users, chats, handlers, last_response, prev_response, started,
           titleIn, titleOut, titleDone,
           sttBody, sttWav, sttRaw, sttPc, sttTried, sttResult >>
titleVars == << titleIn, titleOut, titleDone >>
sttVars == << sttBody, sttWav, sttRaw, sttPc, sttTried, sttResult >>
storeVars == << users, chats >>
responseVars == << last_response, prev_response >>

(* --------------------------- generic helpers --------------------------- *)
None == << >>
Some(x) == << x >>

Max(S) == CHOOSE m \in S : \A n \in S : n <= m

Min2(a, b) == IF a <= b THEN a ELSE b

Take(s, n) == SubSeq(s, 1, Min2(n, Len(s)))

\* Python truthiness of an Optional[int]: None and 0 are falsy
TruthyInt(o) == o # None /\ o[1] # 0

\* Python truthiness of an Optional[str]: None and "" are falsy
TruthyStr(o) == o # None /\ o[1] # << >>

\* Python `a or b` for an Optional[str] a and a str b
OrElse(o, dflt) == IF TruthyStr(o) THEN o[1] ELSE dflt

(* ------------------------------ text ----------------------------------- *)
\* str.split(' '): the pieces between single spaces, empty pieces included
RECURSIVE SplitOnSpace(_)
SplitOnSpace(s) ==
    IF \A i \in 1..Len(s) : s[i] # " "
    THEN << s >>
    ELSE LET i == CHOOSE k \in 1..Len(s) :
                      s[k] = " " /\ \A j \in 1..(k - 1) : s[j] # " "
         IN << SubSeq(s, 1, i - 1) >> \o SplitOnSpace(SubSeq(s, i + 1, Len(s)))

\* sep.join(parts)
RECURSIVE Join(_, _)
Join(parts, sep) ==
    IF Len(parts) = 0 THEN << >>
    ELSE IF Len(parts) = 1 THEN parts[1]
    ELSE parts[1] \o sep \o Join(Tail(parts), sep)

create_chat_title(question) ==
    LET words == SplitOnSpace(question)
    IN Join(Take(words, 3), << " " >>)
         \o (IF Len(words) > 3 THEN << ".", ".", "." >> ELSE << >>)

\* str.capitalize(): first character upper-cased, the rest lower-cased
UpperChar(c) ==
    CASE c = "h" -> "H" [] c = "a" -> "A" [] c = "u" -> "U" [] OTHER -> c
LowerChar(c) ==
    CASE c = "H" -> "h" [] c = "A" -> "a" [] c = "U" -> "u" [] OTHER -> c
Capitalize(s) ==
    [i \in 1..Len(s) |-> IF i = 1 THEN UpperChar(s[i]) ELSE LowerChar(s[i])]

(* ------------------- conversation and its stored form ------------------ *)
Turn(role, content) == [role |-> role, content |-> content]

\* json.dumps of a list of {"role", "content"} dicts, as a token sequence:
\* "[" then "{" role content "}" per turn, then "]"
RECURSIVE json_dumps_items(_)
json_dumps_items(conv) ==
    IF Len(conv) = 0 THEN << >>
    ELSE << "{", conv[1].role, conv[1].content, "}" >>
            \o json_dumps_items(Tail(conv))
json_dumps(conv) == << "[" >> \o json_dumps_items(conv) \o << "]" >>

\* json.loads of such a token sequence
json_loads(text) ==
    LET body == SubSeq(text, 2, Len(text) - 1)
    IN [k \in 1..(Len(body) \div 4) |->
            Turn(body[4 * (k - 1) + 2], body[4 * (k - 1) + 3])]

\* lines 241-246: ChatMessageHistory keeps a HumanMessage (type "human") per
\* user turn and an AIMessage (type "ai") per assistant turn; a turn with any
\* other role is skipped
RECURSIVE llm_chat_history(_)
llm_chat_history(conv) ==
    IF Len(conv) = 0 THEN << >>
    ELSE (IF conv[1].role = "user"
            THEN << [type |-> << "h", "u", "m", "a", "n" >>, content |-> conv[1].content] >>
          ELSE IF conv[1].role = "assistant"
            THEN << [type |-> << "a", "i" >>, content |-> conv[1].content] >>
          ELSE << >>)
         \o llm_chat_history(Tail(conv))

\* line 249: "\n".join(f"{msg.type.capitalize()}: {msg.content}" ...)
render_chat_history(messages) ==
    Join([i \in 1..Len(messages) |->
             Capitalize(messages[i].type) \o << ":", " " >> \o messages[i].content],
         << "\n" >>)

\* lines 72-75 and 251: prompt.format(chat_history=..., question=...)
prompt_format(history_text, question) ==
    << "P", "r", "e", "v", "i", "o", "u", "s", " ", "c", "o", "n", "v", "e",
       "r", "s", "a", "t", "i", "o", "n", ":", " " >>
      \o history_text \o << "\n", "U", "s", "e", "r", ":", " " >> \o question
      \o << "\n", "A", "I", ":" >>

(* ------------------------------ tables --------------------------------- *)
\* integer primary key of a new row: SQLite gives max(rowid) + 1
NextId(table_ids) == IF table_ids = {} THEN 1 ELSE Max(table_ids) + 1

\* get_user (lines 104-105)
get_user(tbl, username) ==
    IF username \in DOMAIN tbl THEN Some(tbl[username]) ELSE None

\* variant of find_chat_for_user that filters on the id alone
find_chat_any_owner(tbl, chat_id, user_id) ==
    IF chat_id \in DOMAIN tbl
    THEN Some([id |-> chat_id,
               user_id |-> tbl[chat_id].user_id,
               first_question |-> tbl[chat_id].first_question,
               conversation_history |-> tbl[chat_id].conversation_history])
    ELSE None

\* line 232: filter(Chat.id == chat_id, Chat.user_id == user.id).first()
find_chat_for_user(tbl, chat_id, user_id) ==
    IF chat_id \in DOMAIN tbl /\ tbl[chat_id].user_id = user_id
    THEN Some([id |-> chat_id,
               user_id |-> tbl[chat_id].user_id,
               first_question |-> tbl[chat_id].first_question,
               conversation_history |-> tbl[chat_id].conversation_history])
    ELSE None

\* lines 300, 311: filter(Chat.id == chat_id).first()
find_chat(tbl, chat_id) == chat_id \in DOMAIN tbl

RemoveRows(tbl, ids) == [c \in (DOMAIN tbl) \ ids |-> tbl[c]]

\* lines 277-281: the ChatResponse built from the refreshed row
ChatResponse(tbl, id) ==
    [id |-> id,
     title |-> create_chat_title(OrElse(tbl[id].first_question,
                                        << "N", "e", "w", " ", "C", "h", "a", "t" >>)),
     conversation_history |-> tbl[id].conversation_history]

(* ------------------------------ requests ------------------------------- *)
NoRequest == [op |-> "none", username |-> "", chat_id |-> None, question |-> << >>]
NoResult == [status |-> 0, detail |-> "", view |-> None, deleted |-> 0]
NoResponse == [req |-> NoRequest, result |-> NoResult]
Failure(status, detail) ==
    [status |-> status, detail |-> detail, view |-> None, deleted |-> 0]

Running == BagToSet(handlers)

\* a request can be taken
CanStart == started < MaxRequests

\* a worker thread is free for a handler that blocks on the model call
WorkerFree == BagCardinality(handlers) < NumWorkers

\* the response goes out
Respond(request, outcome) ==
    /\ last_response' = [req |-> request, result |-> outcome]
    /\ prev_response' = IF request.op = "delete_chat"
                             /\ last_response.req.op = "delete_chat"
                          THEN last_response ELSE NoResponse

\* the frame h is gone: the handler has returned or raised
Without(h) == handlers (-) SetToBag({h})

\* no speech_to_text request is being handled
SttNotCalled ==
    /\ sttBody = "none"
    /\ sttWav = [ok |-> FALSE, value |-> "none"]
    /\ sttRaw = [ok |-> FALSE, value |-> "none"]
    /\ sttPc = "idle"
    /\ sttTried = << >>
    /\ sttResult = None

(* ------------------------------ POST /chat ----------------------------- *)
\* variant of update_chat whose UPDATE is keyed by the owner instead of the
\* primary key: it writes the history to every row of the loaded row's owner
update_chat_by_owner(tbl, loaded, question, conv) ==
    LET fq == IF ~TruthyStr(loaded.first_question)
                THEN Some(question) ELSE loaded.first_question
    IN [c \in DOMAIN tbl |->
          IF tbl[c].user_id = loaded.user_id
            THEN [user_id |-> tbl[c].user_id,
                  first_question |-> IF c = loaded.id /\ fq # loaded.first_question
                                       THEN fq ELSE tbl[c].first_question,
                  conversation_history |-> json_dumps(conv)]
            ELSE tbl[c]]

\* lines 257-264: the UPDATE of the loaded row, keyed by its primary key.
\* Only the attributes whose value changed are written: the history always,
\* first_question when the loaded value was falsy.
update_chat(tbl, loaded, question, conv) ==
    LET fq == IF ~TruthyStr(loaded.first_question)
                THEN Some(question) ELSE loaded.first_question
    IN [tbl EXCEPT ![loaded.id] =
            [user_id |-> @.user_id,
             first_question |-> IF fq # loaded.first_question
                                  THEN fq ELSE @.first_question,
             conversation_history |-> json_dumps(conv)]]

\* variant of insert_chat that leaves first_question unset
insert_chat_untitled(tbl, user_id, question, conv) ==
    tbl @@ (NextId(DOMAIN tbl) :>
              [user_id |-> user_id,
               first_question |-> None,
               conversation_history |-> json_dumps(conv)])

\* lines 266-275: the INSERT of a new row under a store-assigned id
insert_chat(tbl, user_id, question, conv) ==
    tbl @@ (NextId(DOMAIN tbl) :>
              [user_id |-> user_id,
               first_question |-> Some(question),
               conversation_history |-> json_dumps(conv)])

\* the database file outlives the process: at start the chats table is
\* empty, or holds a session that an earlier run has stored (lines 266-275)
InitialStores ==
    { << >>,
      insert_chat(<< >>, Registered["alice"], << "H", "i" >>,
                  << Turn("user", << "H", "i" >>),
                     Turn("assistant", << "o", "k" >>) >>) }

Init ==
    /\ users = Registered
    /\ chats \in InitialStores
    /\ handlers = EmptyBag
    /\ last_response = NoResponse
    /\ prev_response = NoResponse
    /\ started = 0
    /\ titleIn = << >>
    /\ titleOut = << >>
    /\ titleDone = FALSE
    /\ SttNotCalled

ChatRequest(username, chat_id, question) ==
    [op |-> "chat", username |-> username, chat_id |-> chat_id,
     question |-> question]

\* variant of chat_lookup that looks for the session row before the account
chat_lookup_session_first(user_tbl, chat_tbl, username, chat_id) ==
    LET user == get_user(user_tbl, username)
    IN IF TruthyInt(chat_id) /\ ~find_chat(chat_tbl, chat_id[1]) THEN "no_chat"
       ELSE IF user = None THEN "no_user"
       ELSE IF TruthyInt(chat_id)
                 /\ find_chat_for_user(chat_tbl, chat_id[1], user[1]) = None
         THEN "no_chat"
       ELSE "ok"

\* lines 223-234: the outcome of the two lookups: "no_user", "no_chat" or "ok"
chat_lookup(user_tbl, chat_tbl, username, chat_id) ==
    LET user == get_user(user_tbl, username)
    IN IF user = None THEN "no_user"
       ELSE IF TruthyInt(chat_id)
                 /\ find_chat_for_user(chat_tbl, chat_id[1], user[1]) = None
         THEN "no_chat"
       ELSE "ok"

\* lines 223-234: the request ends at one of the two lookups
ChatRejected(username, chat_id, question) ==
    /\ CanStart
    /\ chat_lookup(users, chats, username, chat_id) # "ok"
    /\ started' = started + 1
    /\ Respond(ChatRequest(username, chat_id, question),
               IF chat_lookup(users, chats, username, chat_id) = "no_user"
                 THEN Failure(400, "User not found")
                 ELSE Failure(404, "Chat not found for this user"))
    /\ UNCHANGED << storeVars, handlers, titleVars, sttVars >>

\* lines 223-249: the frame of a request that has passed the lookups: the
\* row loaded (if any), the conversation with the user turn appended, the
\* context text and the prompt
chat_frame(user_tbl, chat_tbl, username, chat_id, question) ==
    LET found == IF TruthyInt(chat_id)
                   THEN find_chat_for_user(chat_tbl, chat_id[1], user_tbl[username])
                   ELSE None
        conv == (IF found # None
                   THEN json_loads(found[1].conversation_history)
                   ELSE << >>) \o << Turn("user", question) >>
        text == render_chat_history(llm_chat_history(conv))
    IN [pc |-> "invoke",
        req |-> ChatRequest(username, chat_id, question),
        db_chat |-> found,
        conversation |-> conv,
        chat_history_text |-> text,
        llm_prompt |-> prompt_format(text, question),
        llm_response |-> None]

\* variant of ChatBegin that stores the user turn of an advance before the
\* model is called
ChatBegin_saving_question(username, chat_id, question) ==
    /\ CanStart
    /\ WorkerFree
    /\ chat_lookup(users, chats, username, chat_id) = "ok"
    /\ started' = started + 1
    /\ LET frame == chat_frame(users, chats, username, chat_id, question)
       IN /\ handlers' = handlers (+) SetToBag({frame})
          /\ chats' = IF frame.db_chat # None
                        THEN update_chat(chats, frame.db_chat[1], question,
                                         frame.conversation)
                        ELSE chats
    /\ UNCHANGED << users, responseVars, titleVars, sttVars >>

\* lines 223-249: account lookup, session lookup and load, append of the
\* user turn, context text; the model call is pending afterwards
ChatBegin(username, chat_id, question) ==
    /\ CanStart
    /\ WorkerFree
    /\ chat_lookup(users, chats, username, chat_id) = "ok"
    /\ started' = started + 1
    /\ handlers' = handlers
                     (+) SetToBag({chat_frame(users, chats, username,
                                              chat_id, question)})
    /\ UNCHANGED << storeVars, responseVars, titleVars, sttVars >>

\* variant of LlmInvokeOk that keeps the reply for the response but does
\* not append it to the conversation
LlmInvokeOk_not_appending(h, reply) ==
    /\ h \in Running
    /\ h.pc = "invoke"
    /\ handlers' = Without(h)
                     (+) SetToBag({[h EXCEPT
                            !.pc = "persist",
                            !.llm_response = Some(reply)]})
    /\ UNCHANGED << storeVars, titleVars, sttVars, responseVars, started >>

\* lines 251-255: llm.invoke returns a reply, which is appended
LlmInvokeOk(h, reply) ==
    /\ h \in Running
    /\ h.pc = "invoke"
    /\ handlers' = Without(h)
                     (+) SetToBag({[h EXCEPT
                            !.pc = "persist",
                            !.llm_response = Some(reply),
                            !.conversation = Append(@, Turn("assistant", reply))]})
    /\ UNCHANGED << storeVars, titleVars, sttVars, responseVars, started >>

\* variant of LlmInvokeFail that writes the conversation (the user turn
\* included) before the failure leaves the handler
LlmInvokeFail_persisting(h) ==
    /\ h \in Running
    /\ h.pc = "invoke"
    /\ Respond(h.req, Failure(500, "llm.invoke raised"))
    /\ chats' = IF h.db_chat = None
                  THEN insert_chat(chats, users[h.req.username],
                                   h.req.question, h.conversation)
                ELSE IF h.db_chat[1].id \in DOMAIN chats
                  THEN update_chat(chats, h.db_chat[1],
                                   h.req.question, h.conversation)
                ELSE chats
    /\ handlers' = Without(h)
    /\ UNCHANGED << users, titleVars, sttVars, started >>

\* line 251: llm.invoke raises; the exception leaves the handler (HTTP 500)
LlmInvokeFail(h) ==
    /\ h \in Running
    /\ h.pc = "invoke"
    /\ Respond(h.req, Failure(500, "llm.invoke raised"))
    /\ handlers' = Without(h)
    /\ UNCHANGED << storeVars, titleVars, sttVars, started >>

\* lines 257-281: UPDATE of the loaded row or INSERT of a new one, commit,
\* refresh, response.  An UPDATE that matches no row raises (HTTP 500).
ChatPersist(h) ==
    /\ h \in Running
    /\ h.pc = "persist"
    /\ IF h.db_chat # None
         THEN IF h.db_chat[1].id \in DOMAIN chats
                THEN /\ chats' = update_chat(chats, h.db_chat[1],
                                             h.req.question, h.conversation)
                     /\ Respond(h.req,
                           [status |-> 200, detail |-> "", deleted |-> 0,
                            view |-> Some(ChatResponse(chats', h.db_chat[1].id))])
                ELSE /\ chats' = chats
                     /\ Respond(h.req, Failure(500, "UPDATE matched no row"))
         ELSE /\ chats' = insert_chat(chats, users[h.req.username],
                                      h.req.question, h.conversation)
              /\ Respond(h.req,
                    [status |-> 200, detail |-> "", deleted |-> 0,
                     view |-> Some(ChatResponse(chats', NextId(DOMAIN chats)))])
    /\ handlers' = Without(h)
    /\ UNCHANGED << users, titleVars, sttVars, started >>

(* ------------------------------ DELETE --------------------------------- *)
DeleteChatRequest(chat_id) ==
    [op |-> "delete_chat", username |-> "", chat_id |-> Some(chat_id),
     question |-> << >>]

\* variant of delete_chat without the not-found check: a missing row is
\* reported as a deletion of zero rows
DeleteChat_lenient(chat_id) ==
    /\ CanStart
    /\ started' = started + 1
    /\ chats' = RemoveRows(chats, {chat_id})
    /\ Respond(DeleteChatRequest(chat_id),
               [status |-> 200, detail |-> "Chat deleted successfully",
                view |-> None,
                deleted |-> IF find_chat(chats, chat_id) THEN 1 ELSE 0])
    /\ UNCHANGED << users, handlers, titleVars, sttVars >>

\* variant of delete_chat that removes every row of the account that owns
\* the row with the given id
DeleteChat_whole_account(chat_id) ==
    /\ CanStart
    /\ started' = started + 1
    /\ IF ~find_chat(chats, chat_id)
         THEN /\ Respond(DeleteChatRequest(chat_id), Failure(404, "Chat not found"))
              /\ chats' = chats
         ELSE /\ chats' = RemoveRows(chats,
                              {c \in DOMAIN chats :
                                 chats[c].user_id = chats[chat_id].user_id})
              /\ Respond(DeleteChatRequest(chat_id),
                         [status |-> 200, detail |-> "Chat deleted successfully",
                          view |-> None, deleted |-> 1])
    /\ UNCHANGED << users, handlers, titleVars, sttVars >>

\* delete_chat (lines 309-316)
DeleteChat(chat_id) ==
    /\ CanStart
    /\ started' = started + 1
    /\ IF ~find_chat(chats, chat_id)
         THEN /\ Respond(DeleteChatRequest(chat_id), Failure(404, "Chat not found"))
              /\ chats' = chats
         ELSE /\ chats' = RemoveRows(chats, {chat_id})
              /\ Respond(DeleteChatRequest(chat_id),
                         [status |-> 200, detail |-> "Chat deleted successfully",
                          view |-> None, deleted |-> 1])
    /\ UNCHANGED << users, handlers, titleVars, sttVars >>

\* variant of delete_all_chats whose DELETE has no owner filter
DeleteAllChats_unfiltered(username) ==
    /\ CanStart
    /\ started' = started + 1
    /\ LET user == get_user(users, username)
           rows == IF user = None THEN {} ELSE DOMAIN chats
           request == [op |-> "delete_all_chats", username |-> username,
                       chat_id |-> None, question |-> << >>]
       IN IF user = None
            THEN /\ Respond(request, Failure(400, "User not found"))
                 /\ chats' = chats
            ELSE /\ chats' = RemoveRows(chats, rows)
                 /\ Respond(request,
                       [status |-> 200, detail |-> "Deleted chats successfully",
                        view |-> None, deleted |-> Cardinality(rows)])
    /\ UNCHANGED << users, handlers, titleVars, sttVars >>

\* delete_all_chats (lines 318-325)
DeleteAllChats(username) ==
    /\ CanStart
    /\ started' = started + 1
    /\ LET user == get_user(users, username)
           rows == IF user = None THEN {}
                   ELSE {c \in DOMAIN chats : chats[c].user_id = user[1]}
           request == [op |-> "delete_all_chats", username |-> username,
                       chat_id |-> None, question |-> << >>]
       IN IF user = None
            THEN /\ Respond(request, Failure(400, "User not found"))
                 /\ chats' = chats
            ELSE /\ chats' = RemoveRows(chats, rows)
                 /\ Respond(request,
                       [status |-> 200, detail |-> "Deleted chats successfully",
                        view |-> None, deleted |-> Cardinality(rows)])
    /\ UNCHANGED << users, handlers, titleVars, sttVars >>

(* --------------------------- specification ----------------------------- *)
OptionalIds == {None} \cup {Some(i) : i \in SuppliedIds}

\* a rejected request ends before its body is read (lines 223-234), so the
\* question plays no part in it
Next ==
    \/ \E u \in Usernames, c \in OptionalIds : ChatRejected(u, c, << >>)
    \/ \E u \in Usernames, c \in OptionalIds, q \in Questions : ChatBegin(u, c, q)
    \/ \E h \in Running, r \in Replies : LlmInvokeOk(h, r)
    \/ \E h \in Running : LlmInvokeFail(h)
    \/ \E h \in Running : ChatPersist(h)
    \/ \E c \in SuppliedIds : DeleteChat(c)
    \/ \E u \in Usernames : DeleteAllChats(u)

Spec == Init /\ [][Next]_vars

(* ------------------ create_chat_title on bounded inputs ---------------- *)
RECURSIVE TextsUpTo(_)
TextsUpTo(n) ==
    IF n = 0 THEN { << >> }
    ELSE LET shorter == TextsUpTo(n - 1)
         IN shorter \cup { Append(t, c) : t \in shorter, c \in TitleChars }

InitTitle ==
    /\ users = Registered
    /\ chats = << >>
    /\ handlers = EmptyBag
    /\ last_response = NoResponse
    /\ prev_response = NoResponse
    /\ started = 0
    /\ titleIn \in TextsUpTo(MaxLen)
    /\ titleOut = << >>
    /\ titleDone = FALSE
    /\ SttNotCalled

DeriveTitle ==
    /\ ~titleDone
    /\ titleOut' = create_chat_title(titleIn)
    /\ titleDone' = TRUE
    /\ UNCHANGED << storeVars, handlers, responseVars, started, titleIn,
                    sttVars >>

NextTitle == DeriveTitle

SpecTitle == InitTitle /\ [][NextTitle]_vars

(* ------------------- speech_to_text (lines 127-165) -------------------- *)
\* what an attempt (decoding and recognize_google) can do: return the
\* recognized text, or raise one of the library's exceptions
SttTexts == {"hello", "how are you"}
SttErrors == {"ValueError", "UnknownValueError", "RequestError"}
Recognized(text) == [ok |-> TRUE, value |-> text]
Raised(exc) == [ok |-> FALSE, value |-> exc]
SttOutcomes ==
    {Recognized(t) : t \in SttTexts} \cup {Raised(e) : e \in SttErrors}
\* `await request.body()` returns the bytes, or raises
BodyOutcomes == {"bytes", "ClientDisconnect"}

\* str() of an HTTPException: "<status_code>: <detail>"
HttpExceptionStr(status, detail) == << status, ": " >> \o detail

SttText(text) == [status |-> 200, text |-> Some(text), detail |-> << >>]

\* lines 160-165: the except clauses of the outer try, in their order, for
\* an exception of this type whose str() is this text
stt_outer_handler(type, text) ==
    IF type = "UnknownValueError"
      THEN [status |-> 400, text |-> None,
            detail |-> << "Google Speech Recognition could not understand audio." >>]
    ELSE IF type = "RequestError"
      THEN [status |-> 503, text |-> None,
            detail |-> << "Could not request results from Google Speech Recognition service; " >>
                         \o text]
    ELSE [status |-> 500, text |-> None,
          detail |-> << "An unexpected error occurred during speech recognition: " >>
                       \o text]

InitStt ==
    /\ users = Registered
    /\ chats = << >>
    /\ handlers = EmptyBag
    /\ last_response = NoResponse
    /\ prev_response = NoResponse
    /\ started = 0
    /\ titleIn = << >>
    /\ titleOut = << >>
    /\ titleDone = FALSE
    /\ sttBody \in BodyOutcomes
    /\ sttWav \in SttOutcomes
    /\ sttRaw \in SttOutcomes
    /\ sttPc = "start"
    /\ sttTried = << >>
    /\ sttResult = None

\* line 136: the body is read; an exception goes to the outer handlers
SttReadBody ==
    /\ sttPc = "start"
    /\ IF sttBody = "bytes"
         THEN /\ sttPc' = "wav"
              /\ sttResult' = None
         ELSE /\ sttPc' = "done"
              /\ sttResult' = Some(stt_outer_handler(sttBody, << sttBody >>))
    /\ UNCHANGED << storeVars, handlers, responseVars, started, titleVars,
                    sttBody, sttWav, sttRaw, sttTried >>

\* variant of SttTryWav without the fallback: a failure of the WAV attempt
\* goes to the outer handlers
SttTryWav_no_fallback ==
    /\ sttPc = "wav"
    /\ sttTried' = Append(sttTried, "wav")
    /\ sttPc' = "done"
    /\ sttResult' = IF sttWav.ok
                      THEN Some(SttText(sttWav.value))
                      ELSE Some(stt_outer_handler(sttWav.value, << sttWav.value >>))
    /\ UNCHANGED << storeVars, handlers, responseVars, started, titleVars,
                    sttBody, sttWav, sttRaw >>

\* lines 138-145: the WAV attempt; any exception is caught at line 146 and
\* the raw attempt follows
SttTryWav ==
    /\ sttPc = "wav"
    /\ sttTried' = Append(sttTried, "wav")
    /\ IF sttWav.ok
         THEN /\ sttPc' = "done"
              /\ sttResult' = Some(SttText(sttWav.value))
         ELSE /\ sttPc' = "raw"
              /\ sttResult' = None
    /\ UNCHANGED << storeVars, handlers, responseVars, started, titleVars,
                    sttBody, sttWav, sttRaw >>

\* lines 150-158: the raw attempt; any exception is caught at line 156 and
\* HTTPException(400, "Could not understand audio: ...") is raised inside
\* the outer try, whose last clause (line 164) catches it
SttTryRaw ==
    /\ sttPc = "raw"
    /\ sttTried' = Append(sttTried, "raw")
    /\ sttPc' = "done"
    /\ sttResult' =
         IF sttRaw.ok
           THEN Some(SttText(sttRaw.value))
           ELSE Some(stt_outer_handler("HTTPException",
                        HttpExceptionStr("400",
                            << "Could not understand audio: ", sttRaw.value >>)))
    /\ UNCHANGED << storeVars, handlers, responseVars, started, titleVars,
                    sttBody, sttWav, sttRaw >>

NextStt ==
    \/ SttReadBody
    \/ SttTryWav
    \/ SttTryRaw

SpecStt == InitStt /\ [][NextStt]_vars

(* ============================ properties =============================== *)
\* a request was received and answered in this one step
Answered == started' = started + 1 /\ handlers' = handlers

\* the frame h has been set up in this step: its request passed the lookups
Begun(h) == started' = started + 1 /\ handlers' = handlers (+) SetToBag({h})

\* the running frame h has ended in this step
Ended(h) == h \in Running /\ handlers' = Without(h)

\* the log a stored row holds
LogOf(row) == json_loads(row.conversation_history)

\* the account named owns no row with this id
NotOwned(username, id) ==
    \/ id \notin DOMAIN chats
    \/ chats[id].user_id # users[username]

SessionNotFound == Failure(404, "Chat not found for this user")
ModelFailure == Failure(500, "llm.invoke raised")

(* C1: when llm.invoke fails during a /chat request, the request has
   written nothing: neither its first step (lookups, load, user turn
   appended in memory) nor the failing model call changes the chats table,
   so an existing session keeps its log and first_question and no row is
   inserted for a request without chat_id. *)
C1_FailedModelCallLeavesStore ==
    [][(\/ \E h \in BagToSet(handlers') : Begun(h)
        \/ \E h \in Running : h.pc = "invoke" /\ Ended(h))
       => chats' = chats /\ users' = users]_vars

\* a request on a stored session has just ended with the model failure
C1_Witness ==
    /\ last_response.req.op = "chat"
    /\ last_response.result = ModelFailure
    /\ last_response.req.chat_id # None
    /\ last_response.req.chat_id[1] \in DOMAIN chats

(* C2 (as claimed): every step of a /chat request on an existing session
   leaves that session's stored log as it was, or replaces it by the stored
   log followed by the user turn and the assistant turn of this request. *)
C2_AdvanceAppendsTwoTurns ==
    [][\A h \in Running :
         (/\ Ended(h)
          /\ h.req.chat_id # None
          /\ h.req.chat_id[1] \in DOMAIN chats)
         => LET c == h.req.chat_id[1]
            IN /\ c \in DOMAIN chats'
               /\ \/ LogOf(chats'[c]) = LogOf(chats[c])
                  \/ /\ h.llm_response # None
                     /\ LogOf(chats'[c]) =
                          LogOf(chats[c])
                            \o << Turn("user", h.req.question),
                                  Turn("assistant", h.llm_response[1]) >>]_vars

(* C3 (as claimed): when a /chat request commits on a session on which
   another request, which had read the same log, has just committed, the
   stored log afterwards is the log both read followed by the other
   request's two turns and then its own two turns. *)
C3_ConcurrentAdvancesBothKept ==
    [][\A h \in Running :
         (/\ h.pc = "persist" /\ Ended(h) /\ h.db_chat # None
          /\ h.db_chat[1].id \in DOMAIN chats
          /\ last_response.req.op = "chat"
          /\ last_response.result.status = 200
          /\ last_response.req.chat_id = h.req.chat_id
          /\ last_response.result.view[1].conversation_history
                = chats[h.db_chat[1].id].conversation_history
          /\ Len(LogOf(chats[h.db_chat[1].id])) = Len(LogOf(h.db_chat[1])) + 2
          /\ SubSeq(LogOf(chats[h.db_chat[1].id]), 1, Len(LogOf(h.db_chat[1])))
                = LogOf(h.db_chat[1]))
         => LET c == h.db_chat[1].id
                base == LogOf(h.db_chat[1])
            IN /\ c \in DOMAIN chats'
               /\ LogOf(chats'[c]) =
                    LogOf(chats[c]) \o << Turn("user", h.req.question),
                                          Turn("assistant", h.llm_response[1]) >>
               /\ Len(LogOf(chats'[c])) = Len(base) + 4]_vars

(* C4 (as claimed): once a session is stored, no step changes its
   first_question (the title source). *)
C4_TitleSourceNeverOverwritten ==
    [][\A c \in (DOMAIN chats) \cap (DOMAIN chats') :
         chats'[c].first_question = chats[c].first_question]_vars

(* C5: a /chat request of a registered user with the chat_id of a session
   that another account owns is answered at once with 404 "Chat not found
   for this user", exactly the answer for a chat_id (of the kind a stored
   session can have, that is at least 1) with no row at all; it never gets
   as far as the model call, and the chats table is unchanged. *)
C5_ForeignSessionIsNotFound ==
    [][/\ \A h \in BagToSet(handlers') :
            (/\ Begun(h)
             /\ h.req.chat_id # None
             /\ h.req.chat_id[1] >= 1)
            => ~NotOwned(h.req.username, h.req.chat_id[1])
       /\ (/\ Answered
           /\ last_response'.req.op = "chat"
           /\ last_response'.req.username \in DOMAIN users
           /\ last_response'.req.chat_id # None
           /\ last_response'.req.chat_id[1] >= 1
           /\ NotOwned(last_response'.req.username,
                       last_response'.req.chat_id[1]))
          => /\ last_response'.result = SessionNotFound
             /\ chats' = chats]_vars

\* a request with the chat_id of another account's stored session has just
\* been answered
C5_Witness ==
    /\ last_response.req.op = "chat"
    /\ last_response.result = SessionNotFound
    /\ last_response.req.username \in DOMAIN users
    /\ last_response.req.chat_id[1] \in DOMAIN chats
    /\ chats[last_response.req.chat_id[1]].user_id
         # users[last_response.req.username]

(* C6 (as claimed): a /chat request of a registered user that supplies a
   chat_id (any integer, 0 included) for which the account owns no session
   never gets past the lookups, and a row is inserted only by a request
   that supplied no chat_id. *)
C6_SuppliedIdNeverCreates ==
    [][/\ \A h \in BagToSet(handlers') :
            (Begun(h) /\ h.req.chat_id # None)
            => ~NotOwned(h.req.username, h.req.chat_id[1])
       /\ \A h \in Running :
            (/\ h.pc = "persist" /\ Ended(h)
             /\ (DOMAIN chats') \ (DOMAIN chats) # {})
            => h.req.chat_id = None]_vars

(* C7 (as claimed): a delete_chat request for an id that has no row, right
   after a delete_chat of the same id has removed the row, is answered as a
   success that reports zero deleted rows, and changes nothing. *)
C7_SecondDeleteReportsZero ==
    [][(/\ Answered
        /\ last_response'.req.op = "delete_chat"
        /\ last_response'.req.chat_id[1] \notin DOMAIN chats
        /\ last_response.req = last_response'.req
        /\ last_response.result.status = 200)
       => /\ last_response'.result.status = 200
          /\ last_response'.result.deleted = 0
          /\ chats' = chats]_vars

(* C7 (amended): a delete_chat request for an id that has a row removes
   exactly that row and succeeds; a delete_chat request for an id that has
   no row (as the second of two deletes of the same session) fails with
   404 "Chat not found" and changes nothing. *)
C7_SecondDeleteIsNotFound ==
    [][(Answered /\ last_response'.req.op = "delete_chat")
       => LET c == last_response'.req.chat_id[1]
          IN IF c \in DOMAIN chats
               THEN /\ DOMAIN chats' = (DOMAIN chats) \ {c}
                    /\ \A d \in DOMAIN chats' : chats'[d] = chats[d]
                    /\ last_response'.result.status = 200
               ELSE /\ chats' = chats
                    /\ last_response'.result = Failure(404, "Chat not found")]_vars

\* two consecutive deletes of the same id have been answered: the first
\* removed the row, the second got 404
C7_Witness ==
    /\ prev_response.req.op = "delete_chat"
    /\ last_response.req = prev_response.req
    /\ prev_response.result.status = 200 /\ prev_response.result.deleted = 1
    /\ last_response.result = Failure(404, "Chat not found")
    /\ last_response.req.chat_id[1] \notin DOMAIN chats

(* C8: the committing step of a /chat request that supplied no chat_id adds
   exactly one row, under an id no row had, owned by the requesting account,
   with first_question equal to the question and a log of exactly the user
   turn and the assistant turn; the response carries that id, that stored
   log and the title of the question ("New Chat" for an empty question);
   every other row is unchanged. *)
C8_NewSessionCommit ==
    [][\A h \in Running :
         (h.pc = "persist" /\ Ended(h) /\ h.req.chat_id = None)
         => \E id \in (DOMAIN chats') \ (DOMAIN chats) :
              /\ DOMAIN chats' = (DOMAIN chats) \cup {id}
              /\ \A c \in DOMAIN chats : chats'[c] = chats[c]
              /\ chats'[id].user_id = users[h.req.username]
              /\ chats'[id].first_question = Some(h.req.question)
              /\ LogOf(chats'[id]) =
                   << Turn("user", h.req.question),
                      Turn("assistant", h.llm_response[1]) >>
              /\ last_response'.req = h.req
              /\ last_response'.result.status = 200
              /\ last_response'.result.view # None
              /\ last_response'.result.view[1].id = id
              /\ last_response'.result.view[1].conversation_history
                   = chats'[id].conversation_history
              /\ last_response'.result.view[1].title =
                   (IF h.req.question = << >>
                      THEN << "N", "e", "w", " ", "C", "h", "a", "t" >>
                      ELSE create_chat_title(h.req.question))]_vars

\* a request without chat_id has just committed a second row
C8_Witness ==
    /\ last_response.req.op = "chat"
    /\ last_response.req.chat_id = None
    /\ last_response.result.status = 200
    /\ last_response.result.view[1].id \in DOMAIN chats
    /\ Cardinality(DOMAIN chats) >= 2

\* the words of a text: its maximal runs of non-whitespace characters
IsSpace(ch) == ch \in {" ", "\t", "\n"}
RECURSIVE WordsOf(_)
WordsOf(s) ==
    IF Len(s) = 0 THEN << >>
    ELSE IF IsSpace(s[1]) THEN WordsOf(Tail(s))
    ELSE LET stop == IF \E k \in 1..Len(s) : IsSpace(s[k])
                       THEN CHOOSE k \in 1..Len(s) :
                              IsSpace(s[k]) /\ \A j \in 1..(k - 1) : ~IsSpace(s[j])
                       ELSE Len(s) + 1
         IN << SubSeq(s, 1, stop - 1) >> \o WordsOf(SubSeq(s, stop, Len(s)))

(* C9 (as claimed): for a text with at least one word, create_chat_title
   returns the first min(3, n) words joined by single spaces, followed by
   "..." exactly when the text has more than 3 words. *)
C9_TitleIsFirstThreeWords ==
    (titleDone /\ Len(WordsOf(titleIn)) >= 1)
    => titleOut = Join(Take(WordsOf(titleIn), 3), << " " >>)
                    \o (IF Len(WordsOf(titleIn)) > 3
                          THEN << ".", ".", "." >> ELSE << >>)

\* the label the claim gives a turn
RoleLabel(role) ==
    IF role = "user" THEN << "U", "s", "e", "r" >>
    ELSE << "A", "s", "s", "i", "s", "t", "a", "n", "t" >>

(* C10 (as claimed): while the model call of a /chat request is pending,
   the context text is one line "{RoleLabel}: {content}" per turn of the
   conversation (the stored turns, then the new user turn), with the label
   "User" or "Assistant", the lines joined by newline. *)
C10_ContextLinesUseRoleLabels ==
    \A h \in Running :
        h.pc = "invoke"
        => h.chat_history_text =
             Join([i \in 1..Len(h.conversation) |->
                      RoleLabel(h.conversation[i].role) \o << ":", " " >>
                        \o h.conversation[i].content],
                  << "\n" >>)

(* ------------------------------ C11 ------------------------------------ *)
\* the frames of a bag that wait for the model's answer
Pending(bag) == BagCardinality([h \in {g \in BagToSet(bag) : g.pc = "invoke"} |-> bag[h]])

\* the rows that this step has inserted or whose content it has changed
Written ==
    {c \in DOMAIN chats' : c \notin DOMAIN chats \/ chats'[c] # chats[c]}

(* C11: a step that inserts a row or changes a row's content is the last
   step of a /chat request that holds the model's reply (its frame is at
   "persist" and ends with the step), so a request writes at most once and
   never before or without a reply; and the model is called only once per
   request: the number of pending model calls grows only when a new request
   arrives, a failed call ends its request and a frame that holds a reply
   never waits for the model again. *)
C11_OneCallThenOneWrite ==
    [][/\ Written # {}
          => \E h \in Running :
               /\ h.pc = "persist" /\ h.llm_response # None
               /\ Ended(h)
       /\ started' = started => Pending(handlers') <= Pending(handlers)
       /\ \A h \in Running :
            (h.pc = "invoke" /\ CopiesIn(h, handlers') < CopiesIn(h, handlers))
            => \/ Ended(h) /\ last_response'.result = ModelFailure
               \/ \E r \in Replies :
                    handlers' = Without(h) (+) SetToBag({[h EXCEPT
                        !.pc = "persist", !.llm_response = Some(r),
                        !.conversation = Append(@, Turn("assistant", r))]})]_vars

\* an advance of a stored session has committed: the row holds two exchanges
C11_Witness ==
    /\ last_response.req.op = "chat"
    /\ last_response.result.status = 200
    /\ last_response.req.chat_id # None
    /\ last_response.req.chat_id[1] \in DOMAIN chats
    /\ Len(LogOf(chats[last_response.req.chat_id[1]])) = 4

(* ------------------------------ C12 ------------------------------------ *)
AccountNotFound == Failure(400, "User not found")

(* C12: a /chat request whose username matches no account is answered at
   once with 400 "User not found", whatever chat_id it carries (none, 0, the
   id of a stored session, an id without a row): no frame is ever set up
   for it, so the model is not called, and the store is unchanged. *)
C12_UnknownAccountFailsFirst ==
    [][/\ \A h \in BagToSet(handlers') :
            Begun(h) => h.req.username \in DOMAIN users
       /\ (/\ Answered
           /\ last_response'.req.op = "chat"
           /\ last_response'.req.username \notin DOMAIN users)
          => /\ last_response'.result = AccountNotFound
             /\ chats' = chats
             /\ users' = users]_vars

\* a request of an unknown username with the id of a stored session has
\* been answered
C12_Witness ==
    /\ last_response.req.op = "chat"
    /\ last_response.req.username \notin DOMAIN users
    /\ last_response.req.chat_id # None
    /\ last_response.req.chat_id[1] \in DOMAIN chats
    /\ last_response.result = AccountNotFound

(* ------------------------------ C13 ------------------------------------ *)
\* a log of whole exchanges: user, assistant, user, assistant, ...
Alternates(log) ==
    /\ Len(log) > 0
    /\ Len(log) % 2 = 0
    /\ \A i \in 1..Len(log) :
         log[i].role = IF i % 2 = 1 THEN "user" ELSE "assistant"

(* C13: in every reachable state every stored row's log, as json.loads
   reads it back, is non-empty, starts with a user turn, ends with an
   assistant turn and alternates strictly between the two roles. *)
C13_StoredLogsAlternate ==
    \A c \in DOMAIN chats : Alternates(LogOf(chats[c]))

\* a stored session has been advanced and another request on the store is
\* in flight
C13_Witness ==
    /\ \E c \in DOMAIN chats : Len(LogOf(chats[c])) >= 4
    /\ handlers # EmptyBag

(* ------------------------------ C14 ------------------------------------ *)
\* the row with this id is stored as the frame h has loaded it
AsLoaded(h) ==
    /\ h.db_chat # None
    /\ h.db_chat[1].id \in DOMAIN chats
    /\ chats[h.db_chat[1].id] =
         [user_id |-> h.db_chat[1].user_id,
          first_question |-> h.db_chat[1].first_question,
          conversation_history |-> h.db_chat[1].conversation_history]

\* another advance, of a session with a different id, is in flight, or has
\* been the last request to commit
OtherSessionAdvancing(h) ==
    \/ \E g \in Running : g.db_chat # None /\ g.db_chat[1].id # h.db_chat[1].id
    \/ /\ last_response.req.op = "chat"
       /\ last_response.result.status = 200
       /\ TruthyInt(last_response.req.chat_id)
       /\ last_response.req.chat_id[1] # h.db_chat[1].id

(* C14: when an advance commits while an advance of a session with a
   different id is in flight or has just committed, and its own row is
   stored as it loaded it, the commit has the effect of the advance run
   alone: the row's log becomes the stored log followed by this request's
   user and assistant turns, its owner stays, no row is added or removed,
   every other row (the other session's included) is unchanged, and the
   response carries the row's id and its new stored log. *)
C14_DifferentSessionsCommitIndependently ==
    [][\A h \in Running :
         (/\ h.pc = "persist" /\ Ended(h)
          /\ AsLoaded(h)
          /\ OtherSessionAdvancing(h))
         => LET a == h.db_chat[1].id
            IN /\ DOMAIN chats' = DOMAIN chats
               /\ \A c \in (DOMAIN chats) \ {a} : chats'[c] = chats[c]
               /\ chats'[a].user_id = chats[a].user_id
               /\ LogOf(chats'[a]) =
                    LogOf(chats[a]) \o << Turn("user", h.req.question),
                                          Turn("assistant", h.llm_response[1]) >>
               /\ last_response'.result.status = 200
               /\ last_response'.result.view[1].id = a
               /\ last_response'.result.view[1].conversation_history
                    = chats'[a].conversation_history]_vars

\* an advance of one session has committed while an advance of another
\* session, which has its reply, is about to commit
C14_Witness ==
    /\ last_response.req.op = "chat"
    /\ last_response.result.status = 200
    /\ TruthyInt(last_response.req.chat_id)
    /\ last_response.req.chat_id[1] \in DOMAIN chats
    /\ Len(LogOf(chats[last_response.req.chat_id[1]])) = 4
    /\ \E g \in Running :
         /\ g.pc = "persist"
         /\ AsLoaded(g)
         /\ g.db_chat[1].id # last_response.req.chat_id[1]

(* ------------------------------ C15 ------------------------------------ *)
\* the ids of the rows an account owns
OwnedBy(tbl, user_id) == {c \in DOMAIN tbl : tbl[c].user_id = user_id}

(* C15: a delete_all_chats request of a registered username removes
   exactly the rows that account owns, leaves every other row as it was,
   succeeds and reports the number of rows removed; for a username without
   an account it fails with 400 "User not found" and the store is
   unchanged. *)
C15_DeleteAllRemovesOwnersRows ==
    [][(Answered /\ last_response'.req.op = "delete_all_chats")
       => LET name == last_response'.req.username
          IN IF name \in DOMAIN users
               THEN /\ DOMAIN chats' = (DOMAIN chats) \ OwnedBy(chats, users[name])
                    /\ \A c \in DOMAIN chats' : chats'[c] = chats[c]
                    /\ last_response'.result.status = 200
                    /\ last_response'.result.deleted
                         = Cardinality(OwnedBy(chats, users[name]))
               ELSE /\ chats' = chats
                    /\ last_response'.result = AccountNotFound]_vars

\* an account's rows have been deleted and another account's row is left
C15_Witness ==
    /\ last_response.req.op = "delete_all_chats"
    /\ last_response.result.status = 200
    /\ last_response.result.deleted >= 1
    /\ OwnedBy(chats, users[last_response.req.username]) = {}
    /\ chats # << >>

(* ------------------------------ C16 ------------------------------------ *)
\* the session the frame h has loaded has been deleted since: no row has
\* its id, or the row that has it belongs to another account (a row keeps
\* its owner for as long as it is stored)
DeletedSinceLoad(h) ==
    /\ h.db_chat # None
    /\ \/ h.db_chat[1].id \notin DOMAIN chats
       \/ chats[h.db_chat[1].id].user_id # h.db_chat[1].user_id

(* C16 (as claimed): the commit of an advance whose session has been
   deleted after the advance loaded it writes nothing: the request fails,
   and no stored row has that session's id and turns afterwards. *)
C16_DeletedSessionStaysDeleted ==
    [][\A h \in Running :
         (h.pc = "persist" /\ Ended(h) /\ DeletedSinceLoad(h))
         => /\ chats' = chats
            /\ last_response'.result.status # 200
            /\ \A c \in DOMAIN chats' :
                 c = h.db_chat[1].id
                 => LogOf(chats'[c]) # h.conversation]_vars

(* ------------------------------ C17 ------------------------------------ *)
(* C17: speech_to_text makes the WAV attempt first and the raw attempt only
   after the WAV attempt has raised; the first attempt that returns a text
   gives the response; there is no response before the handler is done and
   one when it is; every error response has the same status (500, the
   "unexpected error" outcome), and when both attempts have raised, its
   detail ends with the exception of the raw attempt. *)
C17_WavThenRawThenOneError ==
    /\ sttTried \in { << >>, << "wav" >>, << "wav", "raw" >> }
    /\ sttTried = << "wav", "raw" >> => ~sttWav.ok
    /\ sttPc \in {"start", "wav", "raw"} => sttResult = None
    /\ sttPc = "done" =>
         /\ sttResult # None
         /\ sttResult[1].status \in {200, 500}
         /\ sttResult[1].status = 500 => sttResult[1].text = None
         /\ sttBody = "bytes" =>
              IF sttWav.ok
                THEN /\ sttResult[1] = SttText(sttWav.value)
                     /\ sttTried = << "wav" >>
              ELSE IF sttRaw.ok
                THEN /\ sttResult[1] = SttText(sttRaw.value)
                     /\ sttTried = << "wav", "raw" >>
              ELSE /\ sttResult[1].status = 500
                   /\ sttTried = << "wav", "raw" >>
                   /\ sttResult[1].detail[Len(sttResult[1].detail)] = sttRaw.value

\* both attempts have raised, with different exceptions, and the request
\* has been answered
C17_Witness ==
    /\ sttPc = "done"
    /\ sttBody = "bytes"
    /\ ~sttWav.ok /\ ~sttRaw.ok
    /\ sttWav.value # sttRaw.value
    /\ sttResult # None

(* ------------------------------ C18 ------------------------------------ *)
(* C18: a delete_chat request names no account; after it the store holds
   exactly the rows it held before except the row with the given id,
   whichever account owns that row, and every row left is unchanged; when
   no row has the id the store is unchanged. *)
C18_DeleteChatRemovesOnlyThatRow ==
    [][(Answered /\ last_response'.req.op = "delete_chat")
       => LET c == last_response'.req.chat_id[1]
          IN /\ last_response'.req.username = ""
             /\ DOMAIN chats' = (DOMAIN chats) \ {c}
             /\ \A d \in DOMAIN chats' : chats'[d] = chats[d]
             /\ c \notin DOMAIN chats => chats' = chats]_vars

\* a row has been deleted and other rows, of two accounts, are left
C18_Witness ==
    /\ last_response.req.op = "delete_chat"
    /\ last_response.result.status = 200
    /\ \E d, e \in DOMAIN chats : chats[d].user_id # chats[e].user_id

(* ------------------------------ C19 ------------------------------------ *)
(* C19 (as claimed): no step changes the owner of a row that stays stored,
   and every row that the commit of a /chat request inserts or changes is
   owned, after the commit, by the account that made the request. *)
C19_AdvanceWritesOnlyOwnRows ==
    [][/\ \A c \in (DOMAIN chats) \cap (DOMAIN chats') :
            chats'[c].user_id = chats[c].user_id
       /\ \A h \in Running :
            (h.pc = "persist" /\ Ended(h))
            => \A c \in Written : chats'[c].user_id = users[h.req.username]]_vars

====
